---- MODULE Spec2Model ----
(***************************************************************************)
(* Korean TTS service (FastAPI): backend/main.py and backend/tts_engine.py *)
(*                                                                         *)
(* The state is the four module globals of tts_engine.py, the process      *)
(* environment and file system the code reads, and the worker threads of   *)
(* the two sync endpoints POST /api/tts and GET /api/debug, each with its   *)
(* position in the handler.                                                *)
(***************************************************************************)
EXTENDS Integers, Sequences, FiniteSets, TLC

VARIABLES
    env,                    \* os.environ: OPENVOICE_ROOT, TTS_REFERENCE_VOICE
    fs,                     \* the set of paths that exist on disk
    _tone_color_converter,  \* tts_engine.py:11
    _melo_model,            \* tts_engine.py:12
    _target_se,             \* tts_engine.py:13
    _kr_source_se,          \* tts_engine.py:14
    thr,                    \* per worker thread: position in tts() or debug() and
                            \* its locals
    nreq,                   \* number of requests received so far
    builders,               \* requests that executed the assignment of line 57
    overlapped,             \* a request was received while another was in progress
    host                    \* the interpreter (installed modules, sys.path), the
                            \* PATH and the model cache

vars == <<env, fs, _tone_color_converter, _melo_model, _target_se,
          _kr_source_se, thr, nreq, builders, overlapped, host>>

globals == <<_tone_color_converter, _melo_model, _target_se, _kr_source_se>>

----------------------------------------------------------------------------
(* Bounds *)

NThreads == 2
MaxRequests == 2

Threads == 1..NThreads

----------------------------------------------------------------------------
(* Text.  A str is kept run-length encoded: a sequence of runs of one     *)
(* character class ("ws" whitespace, "kr" anything else), so that texts   *)
(* around the 5000 character limit stay small.                             *)

MaxTextLen == 5000

Ws(n) == [ch |-> "ws", n |-> n]
Kr(n) == [ch |-> "kr", n |-> n]

TextInputs ==
    { << >>,
      <<Ws(2)>>,
      <<Ws(1), Kr(5000), Ws(2)>>,
      <<Kr(4999), Ws(1), Kr(1)>> }

RECURSIVE lstrip(_)
lstrip(s) ==
    IF s = << >> THEN s
    ELSE IF Head(s).ch = "ws" THEN lstrip(Tail(s))
    ELSE s

RECURSIVE rstrip(_)
rstrip(s) ==
    IF s = << >> THEN s
    ELSE IF s[Len(s)].ch = "ws" THEN rstrip(SubSeq(s, 1, Len(s) - 1))
    ELSE s

\* str.strip(): surrounding whitespace removed, inner whitespace kept
strip(s) == rstrip(lstrip(s))

RECURSIVE len(_)
len(s) == IF s = << >> THEN 0 ELSE Head(s).n + len(Tail(s))

\* len(text) > 5000, and the same test off by one
TooLongMut(text) == len(text) >= MaxTextLen
TooLong(text) == len(text) > MaxTextLen

----------------------------------------------------------------------------
(* Paths, environment and file system.  A path is a sequence of names.    *)

Unset == << >>

EnvRoot == <<"opt", "OpenVoice">>
SiblingRoot == <<"parent.parent.parent", "OpenVoice">>
InsideRoot == <<"parent.parent", "OpenVoice">>
CustomReference == <<"voices", "texas.wav">>

DirNames == {"openvoice", "melo", "converter", "ses"}

exists(p) == p \in fs
isfile(p) == p \in fs /\ p # << >> /\ p[Len(p)] \notin DirNames

\* a module can be imported when it is installed or when its package
\* directory lies in a directory of sys.path
can_import(mod) ==
    \/ mod \in host.importable
    \/ \E i \in 1..Len(host.sys_path) : exists(host.sys_path[i] \o <<mod>>)

_get_openvoice_root ==
    IF env.OPENVOICE_ROOT # Unset THEN env.OPENVOICE_ROOT
    ELSE IF exists(SiblingRoot \o <<"openvoice">>) THEN SiblingRoot
    ELSE IF exists(InsideRoot \o <<"openvoice">>) THEN InsideRoot
    ELSE InsideRoot

_get_ckpt_v2 == _get_openvoice_root \o <<"checkpoints_v2">>

converter_dir == _get_ckpt_v2 \o <<"converter">>
example_reference == _get_openvoice_root \o <<"resources", "example_reference.mp3">>
texas_reference == _get_ckpt_v2 \o <<"reference", "texas_american.mp3">>
ses_dir == _get_ckpt_v2 \o <<"base_speakers", "ses">>

\* os.environ.get("TTS_REFERENCE_VOICE", <example_reference>)
environ_reference ==
    IF env.TTS_REFERENCE_VOICE # Unset THEN env.TTS_REFERENCE_VOICE
    ELSE example_reference

\* lines 63-69: the path get_se is given; NotFound when line 69 raises
NotFound == <<"<not found>">>

reference_path ==
    IF isfile(environ_reference) THEN environ_reference
    ELSE IF isfile(texas_reference) THEN texas_reference
    ELSE NotFound

\* A speaker key and a file stem are sequences of characters.
Upper == <<"A", "B", "C", "D", "E", "F", "G", "H", "I", "J", "K", "L", "M",
           "N", "O", "P", "Q", "R", "S", "T", "U", "V", "W", "X", "Y", "Z">>
Lower == <<"a", "b", "c", "d", "e", "f", "g", "h", "i", "j", "k", "l", "m",
           "n", "o", "p", "q", "r", "s", "t", "u", "v", "w", "x", "y", "z">>

\* one character of key.lower().replace("_", "-")
lower_hyphen_char(c) ==
    IF \E i \in 1..Len(Upper) : Upper[i] = c
    THEN Lower[CHOOSE i \in 1..Len(Upper) : Upper[i] = c]
    ELSE IF c = "_" THEN "-"
    ELSE c

\* line 88: first_speaker_key.lower().replace("_", "-")
lower_hyphen(k) == [i \in 1..Len(k) |-> lower_hyphen_char(k[i])]

\* lines 78-79: next(iter(_melo_model.hps.data.spk2id.keys())); the speaker
\* table belongs to the installed MeloTTS model
spk2id == host.spk2id
first_speaker_key == Head(spk2id)

\* lines 87-92
candidates == <<lower_hyphen(first_speaker_key), first_speaker_key,
                <<"k", "r">>, <<"K", "R">>>>

\* ses_dir / f"{candidate}.pth"
pth(name) == ses_dir \o name \o <<".pth">>

\* ses_dir.glob("*.pth"): every file of ses_dir whose name ends in .pth, the
\* file named just ".pth" (empty stem) included
pth_files == { p \in fs : Len(p) > Len(ses_dir)
                           /\ SubSeq(p, 1, Len(ses_dir)) = ses_dir
                           /\ p[Len(p)] = ".pth" }

\* lines 87-103: the for/else; the outcomes of the search for se_file
se_files ==
    LET hits == { i \in 1..Len(candidates) : exists(pth(candidates[i])) }
    IN  IF hits # {}
        THEN { pth(candidates[CHOOSE i \in hits : \A j \in hits : i <= j]) }
        ELSE pth_files       \* pth_files[0]: directory order is arbitrary

----------------------------------------------------------------------------
(* Python objects, exceptions and HTTP responses *)

\* an object: its class, the request that constructed it, the path it was
\* loaded from
None == [cls |-> "NoneType", req |-> 0, src |-> << >>]
Object(cls, req, src) == [cls |-> cls, req |-> req, src |-> src]

\* the result of a third-party call: it returns, or raises one of two kinds
Outcomes == {"ok", "FileNotFoundError", "RuntimeError"}

NoExc == [type |-> "", msg |-> "", origin |-> "", stage |-> ""]
Exc(type, msg, origin, stage) ==
    [type |-> type, msg |-> msg, origin |-> origin, stage |-> stage]
ThirdParty(o, call, stage) == Exc(o, call, "third_party", stage)

NoBody == [fmt |-> "none", text |-> << >>]
NoResp == [status |-> 0, media_type |-> "", detail |-> << >>, body |-> NoBody]

\* raise HTTPException(status_code, detail): FastAPI answers with JSON
HTTPException(status, detail) ==
    [status |-> status, media_type |-> "application/json",
     detail |-> detail, body |-> NoBody]

\* main.py:33-40: the import of pydub, then `ex`, the outcome of pydub's
\* from_wav and export; the exception raised, or none and the MP3 bytes
Wav(text) == [fmt |-> "wav", text |-> text]
wav_to_mp3(wav_bytes, ex) ==
    IF ~can_import("pydub")
    THEN [exc |-> Exc("ModuleNotFoundError", "No module named 'pydub'",
                      "import", "wav_to_mp3"),
          value |-> NoBody]
    ELSE IF ex # "ok"
    THEN [exc |-> ThirdParty(ex, "export", "wav_to_mp3"), value |-> NoBody]
    ELSE [exc |-> NoExc, value |-> [fmt |-> "mp3", text |-> wav_bytes.text]]

\* main.py:54-58
Response(content) ==
    [status |-> 200, media_type |-> "audio/mpeg", detail |-> << >>,
     body |-> content]

\* main.py:59-64: the two except clauses of tts(), and the handler without
\* its first clause
ErrorResponseMut(e) ==
    HTTPException(500, <<e.type, e.msg, "traceback">>)
ErrorResponse(e) ==
    IF e.type = "FileNotFoundError"
    THEN HTTPException(503, <<e.msg>>)
    ELSE HTTPException(500, <<e.type, e.msg, "traceback">>)

\* `held` is the value a statement of lines 106-109 has read and not yet
\* stored; `i` and `results` are the loop index and the dict of debug()
Idle == [pc |-> "idle", rid |-> 0, raw |-> << >>, text |-> << >>,
         calls |-> {}, held |-> None, exc |-> NoExc, resp |-> NoResp,
         i |-> 0, results |-> << >>]

PublishPcs == {"publish_106", "store_106", "publish_107", "store_107",
               "publish_108", "store_108", "publish_109", "store_109"}
LoadPcs == {"load_guard", "load_paths", "load_syspath", "load_converter",
            "load_ckpt", "load_reference", "load_melo", "load_ses"}
               \cup PublishPcs
SynthPcs == {"synth_tts", "synth_convert"}

\* an exception leaves generate_korean_tts_american_accent / wav_to_mp3 and
\* is caught in tts()
Raise(t, e) ==
    thr' = [thr EXCEPT ![t].pc = "done", ![t].exc = e,
                       ![t].resp = ErrorResponse(e)]

----------------------------------------------------------------------------
(* POST /api/tts: main.py:43-52, validation and the call of the engine *)

Receive(t) ==
    /\ thr[t].pc = "idle"
    /\ nreq < MaxRequests
    /\ \E raw \in TextInputs :
         LET text == strip(raw) IN
         thr' = [thr EXCEPT ![t] =
             IF text = << >>
             THEN [Idle EXCEPT !.pc = "done", !.rid = nreq + 1, !.raw = raw,
                       !.resp = HTTPException(400, <<"text is required">>)]
             ELSE IF TooLong(text)
             THEN [Idle EXCEPT !.pc = "done", !.rid = nreq + 1, !.raw = raw,
                       !.resp = HTTPException(400,
                                    <<"text too long (max 5000 chars)">>)]
             ELSE [Idle EXCEPT !.pc = "load_guard", !.rid = nreq + 1,
                       !.raw = raw, !.text = text,
                       !.calls = {"generate_korean_tts_american_accent",
                                  "_load_models"}]]
    /\ nreq' = nreq + 1
    /\ overlapped' = (overlapped \/ \E u \in Threads \ {t} : thr[u].pc # "idle")
    /\ UNCHANGED <<env, fs, globals, builders, host>>

\* the response is sent and the worker thread is free again
Finish(t) ==
    /\ thr[t].pc \in {"done", "debug_done"}
    /\ thr' = [thr EXCEPT ![t] = Idle]
    /\ UNCHANGED <<env, fs, globals, nreq, builders, host, overlapped>>

----------------------------------------------------------------------------
(* _load_models: tts_engine.py:33-109.  The function declares the four    *)
(* names global, so every assignment below writes the module global at    *)
(* once.                                                                   *)

\* line 35: the guard
IsLoaded == _tone_color_converter # None

\* lines 35-36
LoadGuard(t) ==
    /\ thr[t].pc = "load_guard"
    /\ thr' = [thr EXCEPT ![t].pc =
                 IF IsLoaded THEN "synth_tts" ELSE "load_paths"]
    /\ UNCHANGED <<env, fs, globals, nreq, builders, host, overlapped>>

\* lines 38-50: the converter directory is looked up and sys.path is searched
\* for the OpenVoice root
LoadPaths(t) ==
    /\ thr[t].pc = "load_paths"
    /\ IF ~exists(converter_dir)
       THEN Raise(t, Exc("FileNotFoundError",
                         "OpenVoice V2 checkpoints not found", "repo", "load"))
       ELSE IF \E i \in 1..Len(host.sys_path) :
                   host.sys_path[i] = _get_openvoice_root
       THEN thr' = [thr EXCEPT ![t].pc = "load_converter"]
       ELSE thr' = [thr EXCEPT ![t].pc = "load_syspath"]
    /\ UNCHANGED <<env, fs, globals, nreq, builders, host, overlapped>>

\* line 51: sys.path.insert(0, str(openvoice_root))
LoadSysPath(t) ==
    /\ thr[t].pc = "load_syspath"
    /\ host' = [host EXCEPT !.sys_path = <<_get_openvoice_root>> \o @]
    /\ thr' = [thr EXCEPT ![t].pc = "load_converter"]
    /\ UNCHANGED <<env, fs, globals, nreq, builders, overlapped>>

\* lines 53-59: the imports of openvoice and melo, then `ctor`, the outcome of
\* ToneColorConverter(...); the assignment of line 57 stores the global
\* before load_ckpt is called
LoadConverter(t) ==
    /\ thr[t].pc = "load_converter"
    /\ \E ctor \in Outcomes :
         IF ~can_import("openvoice")
         THEN /\ Raise(t, Exc("ModuleNotFoundError", "No module named 'openvoice'",
                              "import", "load"))
              /\ UNCHANGED <<_tone_color_converter, builders>>
         ELSE IF ~can_import("melo")
         THEN /\ Raise(t, Exc("ModuleNotFoundError", "No module named 'melo'",
                              "import", "load"))
              /\ UNCHANGED <<_tone_color_converter, builders>>
         ELSE IF ctor # "ok"
         THEN /\ Raise(t, ThirdParty(ctor, "ToneColorConverter", "load"))
              /\ UNCHANGED <<_tone_color_converter, builders>>
         ELSE /\ _tone_color_converter' = Object("ToneColorConverter", thr[t].rid,
                                               converter_dir)
              /\ builders' = builders \cup {thr[t].rid}
              /\ thr' = [thr EXCEPT ![t].pc = "load_ckpt"]
    /\ UNCHANGED <<env, fs, _melo_model, _target_se, _kr_source_se, nreq,
                   host, overlapped>>

\* line 60: `ckpt` is the outcome of _tone_color_converter.load_ckpt(...)
LoadCkpt(t) ==
    /\ thr[t].pc = "load_ckpt"
    /\ \E ckpt \in Outcomes :
         IF ckpt # "ok"
         THEN Raise(t, ThirdParty(ckpt, "load_ckpt", "load"))
         ELSE thr' = [thr EXCEPT ![t].pc = "load_reference"]
    /\ UNCHANGED <<env, fs, globals, nreq, builders, host, overlapped>>

\* lines 62-74: `se` is the outcome of se_extractor.get_se(...)
LoadReference(t) ==
    /\ thr[t].pc = "load_reference"
    /\ \E se \in Outcomes :
         IF reference_path = NotFound
         THEN /\ Raise(t, Exc("FileNotFoundError", "Reference voice not found",
                              "repo", "load"))
              /\ UNCHANGED _target_se
         ELSE IF se # "ok"
         THEN /\ Raise(t, ThirdParty(se, "get_se", "load"))
              /\ UNCHANGED _target_se
         ELSE /\ _target_se' = Object("target_se", thr[t].rid, reference_path)
              /\ thr' = [thr EXCEPT ![t].pc = "load_melo"]
    /\ UNCHANGED <<env, fs, _tone_color_converter, _melo_model, _kr_source_se,
                   nreq, builders, host, overlapped>>

\* line 77: `ctor` is the outcome of TTS(language="KR", ...)
LoadMelo(t) ==
    /\ thr[t].pc = "load_melo"
    /\ \E ctor \in Outcomes :
         IF ctor # "ok"
         THEN /\ Raise(t, ThirdParty(ctor, "TTS", "load"))
              /\ UNCHANGED _melo_model
         ELSE /\ _melo_model' = Object("TTS", thr[t].rid, << >>)
              /\ thr' = [thr EXCEPT ![t].pc = "load_ses"]
    /\ UNCHANGED <<env, fs, _tone_color_converter, _target_se, _kr_source_se,
                   nreq, builders, host, overlapped>>

\* lines 78-104: `ld` is the outcome of torch.load(se_file)
LoadSes(t) ==
    /\ thr[t].pc = "load_ses"
    /\ \E ld \in Outcomes :
         IF spk2id = << >>
         THEN /\ Raise(t, Exc("StopIteration", "", "repo", "load"))
              /\ UNCHANGED _kr_source_se
         ELSE IF ~exists(ses_dir)
         THEN /\ Raise(t, Exc("FileNotFoundError", "Base speakers dir not found",
                              "repo", "load"))
              /\ UNCHANGED _kr_source_se
         ELSE IF se_files = {}
         THEN /\ Raise(t, Exc("FileNotFoundError", "No .pth files", "repo", "load"))
              /\ UNCHANGED _kr_source_se
         ELSE IF ld # "ok"
         THEN /\ Raise(t, ThirdParty(ld, "torch.load", "load"))
              /\ UNCHANGED _kr_source_se
         ELSE /\ \E se_file \in se_files :
                   _kr_source_se' = Object("kr_source_se", thr[t].rid, se_file)
              /\ thr' = [thr EXCEPT ![t].pc = "publish_106"]
    /\ UNCHANGED <<env, fs, _tone_color_converter, _melo_model, _target_se,
                   nreq, builders, host, overlapped>>

\* lines 106-109: each statement globals()["name"] = name first reads the
\* global and then stores what it read; other threads run in between
PublishRead(t, at, then, value) ==
    /\ thr[t].pc = at
    /\ thr' = [thr EXCEPT ![t].pc = then, ![t].held = value]
    /\ UNCHANGED <<env, fs, globals, nreq, builders, host, overlapped>>

Read106(t) == PublishRead(t, "publish_106", "store_106", _tone_color_converter)
Read107(t) == PublishRead(t, "publish_107", "store_107", _melo_model)
Read108(t) == PublishRead(t, "publish_108", "store_108", _target_se)
Read109(t) == PublishRead(t, "publish_109", "store_109", _kr_source_se)

Store106(t) ==
    /\ thr[t].pc = "store_106"
    /\ _tone_color_converter' = thr[t].held
    /\ thr' = [thr EXCEPT ![t].pc = "publish_107", ![t].held = None]
    /\ UNCHANGED <<env, fs, _melo_model, _target_se, _kr_source_se, nreq,
                   builders, host, overlapped>>

Store107(t) ==
    /\ thr[t].pc = "store_107"
    /\ _melo_model' = thr[t].held
    /\ thr' = [thr EXCEPT ![t].pc = "publish_108", ![t].held = None]
    /\ UNCHANGED <<env, fs, _tone_color_converter, _target_se, _kr_source_se,
                   nreq, builders, host, overlapped>>

Store108(t) ==
    /\ thr[t].pc = "store_108"
    /\ _target_se' = thr[t].held
    /\ thr' = [thr EXCEPT ![t].pc = "publish_109", ![t].held = None]
    /\ UNCHANGED <<env, fs, _tone_color_converter, _melo_model, _kr_source_se,
                   nreq, builders, host, overlapped>>

\* line 109, and the return of _load_models
Store109(t) ==
    /\ thr[t].pc = "store_109"
    /\ _kr_source_se' = thr[t].held
    /\ thr' = [thr EXCEPT ![t].pc = "synth_tts", ![t].held = None]
    /\ UNCHANGED <<env, fs, _tone_color_converter, _melo_model, _target_se,
                   nreq, builders, host, overlapped>>

LoadPublish(t) ==
    \/ Read106(t) \/ Store106(t)
    \/ Read107(t) \/ Store107(t)
    \/ Read108(t) \/ Store108(t)
    \/ Read109(t) \/ Store109(t)

----------------------------------------------------------------------------
(* generate_korean_tts_american_accent: tts_engine.py:112-140, and the    *)
(* rest of tts(), main.py:53-64.                                           *)

\* `import torch` on line 129 makes torch a local name of the whole function;
\* these are the function's local names and those bound when line 128 runs
generate_locals == {"text", "speed", "device", "tmp", "src_path", "out_path",
                    "speaker_id", "f", "torch"}
bound_at_128 == {"text", "speed", "device", "tmp", "src_path", "out_path",
                 "speaker_id"}
module_names == {"os", "tempfile", "torch", "Path"}

\* what evaluating `name` on line 128 does
lookup_128(name) ==
    IF name \in generate_locals
    THEN IF name \in bound_at_128 THEN "ok" ELSE "UnboundLocalError"
    ELSE IF name \in module_names THEN "ok" ELSE "NameError"

\* lines 117-125: `tts` is the outcome of _melo_model.tts_to_file(...)
SynthTts(t) ==
    /\ thr[t].pc = "synth_tts"
    /\ \E tts \in Outcomes :
         IF _tone_color_converter = None
         THEN Raise(t, Exc("AttributeError",
                           "'NoneType' object has no attribute 'device'",
                           "repo", "synthesis"))
         ELSE IF _melo_model = None
         THEN Raise(t, Exc("AttributeError",
                           "'NoneType' object has no attribute 'hps'",
                           "repo", "synthesis"))
         ELSE IF spk2id = << >>
         THEN Raise(t, Exc("StopIteration", "", "repo", "synthesis"))
         ELSE IF tts # "ok"
         THEN Raise(t, ThirdParty(tts, "tts_to_file", "synthesis"))
         ELSE thr' = [thr EXCEPT ![t].pc = "synth_convert"]
    /\ UNCHANGED <<env, fs, globals, nreq, builders, host, overlapped>>

\* lines 128-140 and main.py:53-58: `cv` is the outcome of
\* _tone_color_converter.convert(...), `rd` of open(out_path, "rb"),
\* `ex` of pydub's from_wav/export
SynthConvert(t) ==
    /\ thr[t].pc = "synth_convert"
    /\ IF lookup_128("torch") # "ok"
       THEN Raise(t, Exc(lookup_128("torch"),
                         "cannot access local variable 'torch'",
                         "repo", "synthesis"))
       ELSE \E cv \in Outcomes, rd \in Outcomes, ex \in Outcomes :
              IF cv # "ok"
              THEN Raise(t, ThirdParty(cv, "convert", "synthesis"))
              ELSE IF rd # "ok"
              THEN Raise(t, ThirdParty(rd, "open", "read_output"))
              ELSE LET mp3 == wav_to_mp3(Wav(thr[t].text), ex) IN
                   thr' = [thr EXCEPT
                      ![t].pc = "done",
                      ![t].calls = @ \cup {"wav_to_mp3"},
                      ![t].exc = mp3.exc,
                      ![t].resp = IF mp3.exc = NoExc
                                  THEN Response(mp3.value)
                                  ELSE ErrorResponse(mp3.exc)]
    /\ UNCHANGED <<env, fs, globals, nreq, builders, host, overlapped>>

----------------------------------------------------------------------------
(* GET /api/debug: main.py:67-105 *)

Modules == <<"torch", "openvoice", "melo", "pydub", "faster_whisper",
             "transformers", "tokenizers">>

\* f"import_{mod}"
import_key(mod) ==
    CASE mod = "torch" -> "import_torch"
      [] mod = "openvoice" -> "import_openvoice"
      [] mod = "melo" -> "import_melo"
      [] mod = "pydub" -> "import_pydub"
      [] mod = "faster_whisper" -> "import_faster_whisper"
      [] mod = "transformers" -> "import_transformers"
      [] mod = "tokenizers" -> "import_tokenizers"

Val(tag, info) == [tag |-> tag, info |-> info]

\* results[key] = value
Store(results, key, value) == (key :> value) @@ results

\* lines 76-82
debug_root == IF env.OPENVOICE_ROOT # Unset THEN env.OPENVOICE_ROOT
              ELSE <<"not set">>
debug_ckpt == debug_root \o <<"checkpoints_v2", "converter", "checkpoint.pth">>

check_openvoice(results) ==
    Store(Store(results, "OPENVOICE_ROOT", Val("value", debug_root)),
          "checkpoints_v2",
          IF isfile(debug_ckpt) THEN Val("OK", << >>)
          ELSE Val("MISSING", debug_ckpt))

\* lines 86-91: one turn of the loop; __import__(mod) raises unless the
\* module can be imported; below it first with the except clause storing
\* nothing
check_import_mut(results, mod) ==
    IF can_import(mod)
    THEN Store(results, import_key(mod), Val("value", <<"__version__">>))
    ELSE results
check_import(results, mod) ==
    IF can_import(mod)
    THEN Store(results, import_key(mod), Val("value", <<"__version__">>))
    ELSE Store(results, import_key(mod), Val("ERROR", <<"No module named", mod>>))

\* lines 94-95: shutil.which("ffmpeg") or "NOT FOUND"
check_ffmpeg(results) ==
    Store(results, "ffmpeg",
          IF host.ffmpeg THEN Val("value", <<"usr", "bin", "ffmpeg">>)
          ELSE Val("NOT FOUND", << >>))

\* lines 98-103
check_tokenizer(results) ==
    Store(results, "model_bert_kor_base",
          IF ~can_import("transformers")
          THEN Val("ERROR", <<"No module named", "transformers">>)
          ELSE IF ~host.tokenizer
          THEN Val("ERROR", <<"Can't load tokenizer", "kykim/bert-kor-base">>)
          ELSE Val("OK (cached)", << >>))

JSONResponse(content) == [status |-> 200, body |-> content]

ModuleSet == { Modules[i] : i \in 1..Len(Modules) }

\* debug() is a sync endpoint too: it runs on a worker thread of the pool,
\* and the threads of POST /api/tts (which change sys.path) run between its
\* statements

\* lines 67-82
DebugReceive(t) ==
    /\ thr[t].pc = "idle"
    /\ nreq < MaxRequests
    /\ thr' = [thr EXCEPT ![t] =
           [Idle EXCEPT !.pc = "debug_imports", !.rid = nreq + 1, !.i = 1,
                        !.results = check_openvoice(
                            "python" :> Val("value", <<"sys.version">>))]]
    /\ nreq' = nreq + 1
    /\ overlapped' = (overlapped \/ \E u \in Threads \ {t} : thr[u].pc # "idle")
    /\ UNCHANGED <<env, fs, globals, builders, host>>

\* lines 85-91: one turn of the loop
DebugImport(t) ==
    /\ thr[t].pc = "debug_imports"
    /\ thr' = [thr EXCEPT
           ![t].pc = IF thr[t].i = Len(Modules) THEN "debug_ffmpeg"
                     ELSE "debug_imports",
           ![t].i = @ + 1,
           ![t].results = check_import(@, Modules[thr[t].i])]
    /\ UNCHANGED <<env, fs, globals, nreq, builders, host, overlapped>>

\* lines 94-95
DebugFfmpeg(t) ==
    /\ thr[t].pc = "debug_ffmpeg"
    /\ thr' = [thr EXCEPT ![t].pc = "debug_tokenizer",
                          ![t].results = check_ffmpeg(@)]
    /\ UNCHANGED <<env, fs, globals, nreq, builders, host, overlapped>>

\* lines 98-105
DebugTokenizer(t) ==
    /\ thr[t].pc = "debug_tokenizer"
    /\ thr' = [thr EXCEPT
           ![t].pc = "debug_done",
           ![t].results = check_tokenizer(@),
           ![t].resp = JSONResponse(check_tokenizer(thr[t].results))]
    /\ UNCHANGED <<env, fs, globals, nreq, builders, host, overlapped>>

----------------
(* Initial states: the module has just been imported (tts_engine.py:11-14) *)
(* and the environment and disk are in any of the layouts below.           *)

\* where OpenVoice is: OPENVOICE_ROOT, a clone next to the project, or no
\* clone at all; `root` is the directory _get_openvoice_root then answers
Layouts ==
    { [environ |-> EnvRoot, clones |-> {}, root |-> EnvRoot],
      [environ |-> Unset, clones |-> {SiblingRoot \o <<"openvoice">>},
       root |-> SiblingRoot],
      [environ |-> Unset, clones |-> {InsideRoot \o <<"openvoice">>},
       root |-> InsideRoot],
      [environ |-> Unset, clones |-> {}, root |-> InsideRoot] }

\* the paths under `root` that _load_models looks at
Installation(root) ==
    { root \o <<"checkpoints_v2", "converter">>,
      root \o <<"resources", "example_reference.mp3">>,
      root \o <<"checkpoints_v2", "reference", "texas_american.mp3">>,
      root \o <<"checkpoints_v2", "base_speakers", "ses">>,
      root \o <<"checkpoints_v2", "base_speakers", "ses", "k", "r", ".pth">>,
      root \o <<"checkpoints_v2", "base_speakers", "ses", "z", "h", ".pth">>,
      root \o <<"checkpoints_v2", "base_speakers", "ses", ".pth">> }

\* the embeddings of another language, and the one with an empty stem
OtherEmbeddings(root) ==
    { root \o <<"checkpoints_v2", "base_speakers", "ses", "z", "h", ".pth">>,
      root \o <<"checkpoints_v2", "base_speakers", "ses", ".pth">> }

\* a file lies in a directory that exists
WellFormed(files) ==
    \A p \in files :
        p[Len(p)] = ".pth" =>
            \E d \in files : /\ d[Len(d)] = "ses"
                             /\ Len(d) < Len(p)
                             /\ SubSeq(p, 1, Len(d)) = d

\* the speaker tables a MeloTTS model may come with: spk2id's keys in order
KoreanTable == <<<<"K", "R">>>>
SpeakerTables ==
    { KoreanTable,
      <<<<"Z", "H">>>>,
      <<<<"E", "N", "_", "U", "S">>, <<"K", "R">>>> }

\* main.py:14-17 imports tts_engine, whose line 7 imports torch: the
\* application starts only where these can be imported
StartupImports == {"torch"}

\* the interpreter at start: the installed modules, nothing added to sys.path
Host(importable, ffmpeg, tokenizer, speakers) ==
    [importable |-> importable, sys_path |-> << >>, ffmpeg |-> ffmpeg,
     tokenizer |-> tokenizer, spk2id |-> speakers]

ImportedState ==
    /\ _tone_color_converter = None
    /\ _melo_model = None
    /\ _target_se = None
    /\ _kr_source_se = None
    /\ thr = [t \in Threads |-> Idle]
    /\ nreq = 0
    /\ builders = {}
    /\ overlapped = FALSE

\* OPENVOICE_ROOT set, everything installed, the Korean table: every set of
\* required files, with TTS_REFERENCE_VOICE unset, naming a file, naming none
InitFiles ==
    \E voice \in {Unset, CustomReference}, voices \in SUBSET {CustomReference} :
    \E files \in SUBSET (Installation(EnvRoot) \ OtherEmbeddings(EnvRoot)) :
        /\ env = [OPENVOICE_ROOT |-> EnvRoot, TTS_REFERENCE_VOICE |-> voice]
        /\ fs = files \cup voices
        /\ WellFormed(files)
        /\ voices # {} => voice # Unset
        /\ host = Host(ModuleSet, TRUE, TRUE, KoreanTable)

\* every place OpenVoice may be in, complete or empty; openvoice or melo
\* installed or not (a clone in sys.path makes openvoice importable)
InitLayouts ==
    \E layout \in Layouts, missing \in {{}, {"openvoice"}, {"melo"}} :
    \E files \in {Installation(layout.root), {}} :
        /\ env = [OPENVOICE_ROOT |-> layout.environ, TTS_REFERENCE_VOICE |-> Unset]
        /\ fs = layout.clones \cup files
        /\ _get_openvoice_root = layout.root
        /\ host = Host(ModuleSet \ missing, TRUE, TRUE, KoreanTable)

\* every speaker table, with every set of embedding files
InitSpeakers ==
    \E speakers \in SpeakerTables :
    \E files \in SUBSET Installation(EnvRoot) :
        /\ env = [OPENVOICE_ROOT |-> EnvRoot, TTS_REFERENCE_VOICE |-> Unset]
        /\ fs = files
        /\ WellFormed(files)
        /\ {converter_dir, example_reference, ses_dir} \subseteq files
        /\ texas_reference \notin files
        /\ host = Host(ModuleSet, TRUE, TRUE, speakers)

Init == (InitFiles \/ InitLayouts \/ InitSpeakers) /\ ImportedState

\* the checkpoint file debug() looks for lies in the converter directory
DebugFiles(root) ==
    { {},
      { root \o <<"checkpoints_v2", "converter">>,
        root \o <<"checkpoints_v2", "converter", "checkpoint.pth">> } }

\* every combination of what debug() checks
InitChecks ==
    \E root \in {Unset, EnvRoot} :
    \E importable \in SUBSET ModuleSet, ffmpeg \in BOOLEAN, tokenizer \in BOOLEAN :
    \E at_root \in DebugFiles(EnvRoot), not_set \in DebugFiles(<<"not set">>) :
        /\ env = [OPENVOICE_ROOT |-> root, TTS_REFERENCE_VOICE |-> Unset]
        /\ fs = at_root \cup not_set
        /\ StartupImports \subseteq importable
        /\ host = Host(importable, ffmpeg, tokenizer, KoreanTable)

\* openvoice and melo not installed, their packages in the OpenVoice clone:
\* they can be imported once a request has put the clone into sys.path
InitClone ==
    \E layout \in Layouts :
        /\ layout.clones # {}
        /\ env = [OPENVOICE_ROOT |-> layout.environ, TTS_REFERENCE_VOICE |-> Unset]
        /\ fs = layout.clones \cup {layout.root \o <<"melo">>}
                   \cup Installation(layout.root)
        /\ _get_openvoice_root = layout.root
        /\ host = Host(ModuleSet \ {"openvoice", "melo"}, TRUE, TRUE, KoreanTable)

InitDebug == (InitChecks \/ InitClone) /\ ImportedState

----------------------------------------------------------------------------
(* Specifications *)

\* tts() and debug() are sync endpoints: FastAPI runs each request on a
\* worker thread of its pool, and threads interleave between the steps
Next ==
    \E t \in Threads :
        \/ Receive(t)
        \/ DebugReceive(t)
        \/ DebugImport(t)
        \/ DebugFfmpeg(t)
        \/ DebugTokenizer(t)
        \/ LoadGuard(t)
        \/ LoadPaths(t)
        \/ LoadSysPath(t)
        \/ LoadConverter(t)
        \/ LoadCkpt(t)
        \/ LoadReference(t)
        \/ LoadMelo(t)
        \/ LoadSes(t)
        \/ LoadPublish(t)
        \/ SynthTts(t)
        \/ SynthConvert(t)
        \/ Finish(t)

Spec == Init /\ [][Next]_vars
SpecDebug == InitDebug /\ [][Next]_vars

----------------------------------------------------------------------------
(* Properties *)

\* a text read without strip(): blank, and the length between its first and
\* its last character that is no whitespace
IsBlank(raw) == \A i \in 1..Len(raw) : raw[i].ch = "ws"

RECURSIVE RunSum(_, _, _)
RunSum(raw, i, j) == IF i > j THEN 0 ELSE raw[i].n + RunSum(raw, i + 1, j)

CoreLen(raw) ==
    LET solid == { i \in 1..Len(raw) : raw[i].ch # "ws" }
    IN  IF solid = {} THEN 0
        ELSE RunSum(raw, CHOOSE i \in solid : \A j \in solid : i <= j,
                         CHOOSE i \in solid : \A j \in solid : j <= i)

Accepted(raw) == ~IsBlank(raw) /\ CoreLen(raw) <= MaxTextLen

Answered(t) == thr[t].pc = "done"
InTts(t) == thr[t].pc \in {"done"} \cup LoadPcs \cup SynthPcs
DebugAnswered(t) == thr[t].pc = "debug_done"

ConverterPresent == exists(converter_dir)
ReferencePresent ==
    \/ isfile(environ_reference)
    \/ isfile(texas_reference)
SpeakerPresent == exists(ses_dir) /\ pth_files # {}
RequiredFilesPresent == ConverterPresent /\ ReferencePresent /\ SpeakerPresent

AllNone == /\ _tone_color_converter = None /\ _melo_model = None
           /\ _target_se = None /\ _kr_source_se = None
AllSet == /\ _tone_color_converter # None /\ _melo_model # None
          /\ _target_se # None /\ _kr_source_se # None

\* C1: a valid request, with every required file present, the models loaded
\* and no third-party call raising, is answered 200 audio/mpeg with the MP3 of
\* the engine's WAV (stated for requests that arrive one after the other).
C1_ValidRequestAnswered200 ==
    \A t \in Threads :
        (/\ Answered(t)
         /\ Accepted(thr[t].raw)
         /\ RequiredFilesPresent
         /\ AllSet
         /\ ~overlapped
         /\ thr[t].exc.origin # "third_party")
        => /\ thr[t].resp.status = 200
           /\ thr[t].resp.media_type = "audio/mpeg"
           /\ thr[t].resp.body = [fmt |-> "mp3", text |-> strip(thr[t].raw)]

\* C2: the text is validated after stripping and before anything else: blank
\* text is answered 400 'text is required', a stripped text of more than 5000
\* characters 400 'text too long', one of exactly 5000 is accepted, and a
\* request answered 400 has called neither the model loading nor the synthesis.
C2_ValidationFirst ==
    \A t \in Threads :
        InTts(t) =>
            /\ IsBlank(thr[t].raw) =>
                 /\ Answered(t)
                 /\ thr[t].resp.status = 400
                 /\ thr[t].resp.detail = <<"text is required">>
            /\ (~IsBlank(thr[t].raw) /\ CoreLen(thr[t].raw) > MaxTextLen) =>
                 /\ Answered(t)
                 /\ thr[t].resp.status = 400
                 /\ thr[t].resp.detail = <<"text too long (max 5000 chars)">>
            /\ (~IsBlank(thr[t].raw) /\ CoreLen(thr[t].raw) <= MaxTextLen) =>
                 /\ thr[t].resp.status # 400
                 /\ "_load_models" \in thr[t].calls
            /\ thr[t].resp.status = 400 =>
                 /\ thr[t].calls = {}
                 /\ thr[t].rid \notin builders

C2_Witness ==
    \E t \in Threads :
        /\ Answered(t) /\ thr[t].resp.status \notin {0, 400}
        /\ CoreLen(thr[t].raw) = MaxTextLen
        /\ Len(thr[t].raw) = 3
        /\ thr[t].rid > 1

RequiredFileMissing == ~RequiredFilesPresent

\* C3: every valid request made while a required file is missing is answered
\* 503 with the FileNotFoundError message, the first one and every later one
\* (stated for requests that arrive one after the other).
C3_MissingFileAlways503 ==
    \A t \in Threads :
        (/\ Answered(t)
         /\ Accepted(thr[t].raw)
         /\ RequiredFileMissing
         /\ ~overlapped
         /\ thr[t].exc.origin # "third_party")
        => /\ thr[t].resp.status = 503
           /\ thr[t].exc.type = "FileNotFoundError"
           /\ thr[t].resp.detail = <<thr[t].exc.msg>>

\* what one step does to the worker that is at the guard of _load_models
LeavesGuard(t) == thr[t].pc = "load_guard" /\ thr'[t].pc # "load_guard"

\* a call of _load_models that constructed the models has returned: its
\* request is in synthesis, or was answered from there
LoadCompleted ==
    \E t \in Threads :
        /\ thr[t].rid \in builders
        /\ \/ thr[t].pc \in SynthPcs
           \/ Answered(t) /\ thr[t].exc.stage = "synthesis"

\* C4: loading is lazy and happens at most once: nothing is loaded before the
\* first request, the globals change only inside _load_models, a call that
\* finds nothing loaded performs the load, and once a load has completed
\* every call returns at the guard, nothing is constructed and the four
\* objects keep their values.
C4_LazyLoadOnce ==
    [][ /\ nreq = 0 => AllNone /\ builders = {}
        /\ globals' # globals =>
             \E t \in Threads : thr[t].pc \in LoadPcs \ {"load_guard"}
        /\ \A t \in Threads :
             (AllNone /\ LeavesGuard(t)) => thr'[t].pc = "load_paths"
        /\ (LoadCompleted /\ AllSet) =>
             /\ globals' = globals
             /\ builders' = builders
             /\ \A t \in Threads : LeavesGuard(t) => thr'[t].pc = "synth_tts"
      ]_vars

ReferenceNotFoundRaised(t) ==
    Answered(t) /\ thr[t].exc.msg = "Reference voice not found"

\* C5: 'Reference voice not found' is raised only when neither the file named
\* by TTS_REFERENCE_VOICE, nor resources/example_reference.mp3, nor
\* reference/texas_american.mp3 exists.
C5_ReferenceFoundWhenAnyExists ==
    \A t \in Threads :
        ReferenceNotFoundRaised(t) =>
            /\ ~(env.TTS_REFERENCE_VOICE # Unset /\ isfile(env.TTS_REFERENCE_VOICE))
            /\ ~isfile(example_reference)
            /\ ~isfile(texas_reference)

DebugKeys ==
    {"python", "OPENVOICE_ROOT", "checkpoints_v2", "ffmpeg", "model_bert_kor_base"}
        \cup { import_key(m) : m \in ModuleSet }

FailureTags == {"ERROR", "MISSING", "NOT FOUND"}

\* the directories of fs that hold the package of module m
PackageDirs(m) == { p \in fs : p[Len(p)] = m }

\* C6: GET /api/debug always answers 200 with a report that holds every key,
\* and a check that failed is reported as an ERROR, MISSING or NOT FOUND value.
C6_DebugAlwaysReports ==
    \A t \in Threads :
      DebugAnswered(t) =>
        /\ thr[t].resp.status = 200
        /\ DOMAIN thr[t].resp.body = DebugKeys
        /\ thr[t].resp.body["OPENVOICE_ROOT"].info =
             (IF env.OPENVOICE_ROOT = Unset THEN <<"not set">> ELSE env.OPENVOICE_ROOT)
        /\ (thr[t].resp.body["checkpoints_v2"].tag = "MISSING")
             <=> (debug_root \o <<"checkpoints_v2", "converter", "checkpoint.pth">>
                    \notin fs)
        /\ \A m \in ModuleSet :
             /\ PackageDirs(m) = {} =>
                  ((thr[t].resp.body[import_key(m)].tag = "ERROR")
                     <=> m \notin host.importable)
             /\ thr[t].resp.body[import_key(m)].tag = "ERROR"
                  => m \notin host.importable
             /\ thr[t].resp.body[import_key(m)].tag # "ERROR" => can_import(m)
        /\ (thr[t].resp.body["ffmpeg"].tag = "NOT FOUND") <=> ~host.ffmpeg
        /\ (thr[t].resp.body["model_bert_kor_base"].tag = "ERROR")
             <=> ~(host.tokenizer /\ "transformers" \in host.importable)
        /\ \A k \in DebugKeys :
             thr[t].resp.body[k].tag \in FailureTags \cup {"value", "OK", "OK (cached)"}

C6_Witness ==
    \E t \in Threads :
        /\ DebugAnswered(t)
        /\ thr[t].resp.status = 200
        /\ env.OPENVOICE_ROOT = Unset
        /\ thr[t].resp.body["checkpoints_v2"].tag = "MISSING"
        /\ thr[t].resp.body["import_melo"].tag = "ERROR"
        /\ thr[t].resp.body["import_torch"].tag = "value"
        /\ thr[t].resp.body["ffmpeg"].tag = "NOT FOUND"
        /\ thr[t].resp.body["model_bert_kor_base"].tag = "ERROR"

\* C7: after validation the answer depends on the type of the exception and
\* on nothing else: FileNotFoundError from any stage gives 503 with its
\* message, any other exception 500 with '<type>: <message>' and the
\* traceback, and 200 is answered exactly when nothing was raised.
C7_StatusByExceptionType ==
    \A t \in Threads :
        (Answered(t) /\ thr[t].calls # {}) =>
            /\ thr[t].exc.type = "FileNotFoundError" =>
                 /\ thr[t].resp.status = 503
                 /\ thr[t].resp.detail = <<thr[t].exc.msg>>
            /\ thr[t].exc.type \notin {"", "FileNotFoundError"} =>
                 /\ thr[t].resp.status = 500
                 /\ thr[t].resp.detail =
                      <<thr[t].exc.type, thr[t].exc.msg, "traceback">>
            /\ thr[t].resp.status = 200 <=> thr[t].exc = NoExc
            /\ thr[t].resp.status \in {200, 500, 503}

C7_Witness ==
    \E t \in Threads :
        /\ Answered(t) /\ thr[t].resp.status = 503
        /\ thr[t].exc.type = "FileNotFoundError"
        /\ thr[t].exc.stage = "synthesis"
        /\ thr[t].resp.detail = <<"tts_to_file">>

\* C8: whenever no _load_models call is in progress the four globals are all
\* None or all set.
C8_AllOrNothing ==
    (\A t \in Threads : thr[t].pc \notin LoadPcs) => (AllNone \/ AllSet)

\* C9: with concurrent requests and every required file present, no request
\* is in synthesis while _melo_model, _target_se or _kr_source_se is None and
\* another request is loading, and at most one request constructs the models.
C9_ConcurrentLoadSafe ==
    /\ \A t \in Threads :
         (/\ RequiredFilesPresent
          /\ thr[t].pc \in SynthPcs
          /\ \E u \in Threads \ {t} : thr[u].pc \in LoadPcs)
         => /\ _melo_model # None
            /\ _target_se # None
            /\ _kr_source_se # None
    /\ Cardinality(builders) <= 1

====
